---- MODULE Spec2Model ----
(***************************************************************************)
(* Backtracking Sudoku solver with a step trace.                           *)
(*   src/sudoku.py   class SudokuSolver            (trace: self.steps)     *)
(*   src/sudoku2.py  class InteractiveSudokuSolver (trace:                 *)
(*                   self.solution_states, one grid snapshot per event)    *)
(* The recursion of solve / solve_algorithm is an explicit stack of call   *)
(* frames; one action is one step of the innermost frame.                  *)
(***************************************************************************)
EXTENDS Integers, Sequences, FiniteSets

\* ------------------------------------------------------------------------
\* Program constants
\* ------------------------------------------------------------------------

\* range(9): the grid is 9 x 9
N == 9

\* 3 * (row // 3): boxes are 3 x 3
Box == 3

\* range(1, 10): the digits tried are 1 .. 9
MaxDigit == 9

Idx == 0 .. (N - 1)

Digits == 1 .. MaxDigit

Cells == Idx \X Idx

\* ------------------------------------------------------------------------
\* Bounds of the input space
\* ------------------------------------------------------------------------

\* at most this many cells of the full base grid are emptied in an input
MaxHoles == 6

\* at most this many cells are emptied in a grid is_valid is probed on
MaxProbeHoles == 2

\* A full valid grid: row r is 1..9 rotated by 3*(r mod 3) + r div 3.
BaseGrid ==
    [r \in Idx |-> [c \in Idx |-> ((Box * (r % Box) + (r \div Box) + c) % N) + 1]]

\* The cells an input may leave empty: a 3 x 3 Latin sub-square of BaseGrid
\* (digits 1, 4, 7), so that inputs with several completions, with dead ends
\* and with no completion all occur.
HoleCells == {0, 1, 2} \X {0, 3, 6}

\* The clue cells an input may overwrite, and the digits written there.
EditCells == {<<0, 0>>, <<1, 3>>, <<2, 4>>}

EditDigits == {1, 4, 7}

Punch(g, H) ==
    [r \in Idx |-> [c \in Idx |-> IF <<r, c>> \in H THEN 0 ELSE g[r][c]]]

HoleSets(max) == {H \in SUBSET HoleCells : Cardinality(H) <= max}

\* Input grids: the base grid with some cells emptied and at most one clue
\* overwritten (which may or may not duplicate another clue).
GridsUpTo(max) ==
    {Punch(BaseGrid, H) : H \in HoleSets(max)} \cup
    UNION {{[Punch(BaseGrid, H) EXCEPT ![e[1]][e[2]] = d] :
               e \in EditCells \ H, d \in EditDigits} : H \in HoleSets(max)}

Inputs == GridsUpTo(MaxHoles)

ProbeGrids == GridsUpTo(MaxProbeHoles)

VARIABLES
    cls,                 \* which class the instance is (sudoku.py:7, sudoku2.py:7)
    grid,                \* self.grid (sudoku.py:9, sudoku2.py:9)
    original_grid,       \* self.original_grid (sudoku.py:10, sudoku2.py:10)
    local,               \* the grid argument of solve_algorithm (sudoku2.py:210)
    steps,               \* SudokuSolver.steps (sudoku.py:11)
    solution_states,     \* InteractiveSudokuSolver.solution_states (sudoku2.py:11)
    current_state_index, \* InteractiveSudokuSolver.current_state_index (sudoku2.py:12)
    selected_cell,       \* InteractiveSudokuSolver.selected_cell (sudoku2.py:13)
    solving,             \* InteractiveSudokuSolver.solving (sudoku2.py:14)
    solved,              \* InteractiveSudokuSolver.solved (sudoku2.py:15)
    stack,               \* call frames of solve / solve_algorithm, innermost last
    ret,                 \* value returned by the frame that returned last:
                         \* "True", "False", or "pending" while none is waiting
    input,               \* history: the grid the running solve was called on
    probe                \* history: <<row, col, num, result>> of a direct
                         \* is_valid call, <<>> before it

vars == <<cls, grid, original_grid, local, steps, solution_states,
          current_state_index, selected_cell, solving, solved, stack, ret,
          input, probe>>

\* Python None (the empty tuple: no cell)
None == <<>>

Zeros == [r \in Idx |-> [c \in Idx |-> 0]]

\* A fresh call frame of solve / solve_algorithm, at its first line.
\*   pc = "find": about to call find_empty
\*   pc = "loop": at the head of `for num in range(1, 10)`, about to try num
\*   pc = "call": inside the recursive call made after placing num
NewFrame == [pc |-> "find", row |-> 0, col |-> 0, num |-> 0]

Top == stack[Len(stack)]

Pop == SubSeq(stack, 1, Len(stack) - 1)

SetTop(f) == [stack EXCEPT ![Len(stack)] = f]

SetCell(g, row, col, v) == [g EXCEPT ![row][col] = v]

\* ------------------------------------------------------------------------
\* src/sudoku.py: class SudokuSolver
\* ------------------------------------------------------------------------

\* Mutant of is_valid: the column check is left out.
is_valid_no_column(g, row, col, num) ==
    IF \E j \in Idx : g[row][j] = num
    THEN FALSE
    ELSE LET box_row == Box * (row \div Box)
             box_col == Box * (col \div Box)
         IN  ~(\E i \in box_row .. (box_row + Box - 1) :
                   \E j \in box_col .. (box_col + Box - 1) : g[i][j] = num)

\* Mutant of is_valid: the row check is left out.
is_valid_no_row(g, row, col, num) ==
    IF \E i \in Idx : g[i][col] = num
    THEN FALSE
    ELSE LET box_row == Box * (row \div Box)
             box_col == Box * (col \div Box)
         IN  ~(\E i \in box_row .. (box_row + Box - 1) :
                   \E j \in box_col .. (box_col + Box - 1) : g[i][j] = num)

is_valid(g, row, col, num) ==
    IF \E j \in Idx : g[row][j] = num
    THEN FALSE
    ELSE IF \E i \in Idx : g[i][col] = num
    THEN FALSE
    ELSE LET box_row == Box * (row \div Box)
             box_col == Box * (col \div Box)
         IN  IF \E i \in box_row .. (box_row + Box - 1) :
                   \E j \in box_col .. (box_col + Box - 1) : g[i][j] = num
             THEN FALSE
             ELSE TRUE

\* Mutant of find_empty: the last cell scanned is returned when no cell is
\* empty.
find_empty_never_none(g) ==
    LET E == {c \in Cells : g[c[1]][c[2]] = 0}
    IN  IF E = {}
        THEN <<N - 1, N - 1>>
        ELSE CHOOSE c \in E :
                 \A d \in E : c[1] < d[1] \/ (c[1] = d[1] /\ c[2] <= d[2])

\* Mutant of find_empty: the cells are scanned from the last to the first.
find_empty_last(g) ==
    LET E == {c \in Cells : g[c[1]][c[2]] = 0}
    IN  IF E = {}
        THEN None
        ELSE CHOOSE c \in E :
                 \A d \in E : c[1] > d[1] \/ (c[1] = d[1] /\ c[2] >= d[2])

\* The first cell holding 0, rows top to bottom and columns left to right.
find_empty(g) ==
    LET E == {c \in Cells : g[c[1]][c[2]] = 0}
    IN  IF E = {}
        THEN None
        ELSE CHOOSE c \in E :
                 \A d \in E : c[1] < d[1] \/ (c[1] = d[1] /\ c[2] <= d[2])

\* solve_and_visualize, up to its call of solve.
solve_and_visualize ==
    /\ cls = "SudokuSolver"
    /\ stack = <<>>
    /\ steps' = <<>>
    /\ stack' = <<NewFrame>>
    /\ ret' = "pending"
    /\ input' = grid
    /\ UNCHANGED <<cls, grid, original_grid, local, solution_states,
                   current_state_index, selected_cell, solving, solved, probe>>

\* solve, lines 42-48: find the empty cell or return True.
solve_find ==
    /\ cls = "SudokuSolver"
    /\ stack # <<>>
    /\ Top.pc = "find"
    /\ LET empty_cell == find_empty(grid)
       IN  IF empty_cell = None
           THEN /\ stack' = Pop
                /\ ret' = "True"
           ELSE /\ stack' = SetTop([pc |-> "loop", row |-> empty_cell[1],
                                    col |-> empty_cell[2], num |-> 1])
                /\ ret' = ret
    /\ UNCHANGED <<cls, grid, original_grid, local, steps, solution_states,
                   current_state_index, selected_cell, solving, solved,
                   input, probe>>

\* Mutant of solve_try: the digit is recorded but not written to the grid.
solve_try_no_write ==
    /\ cls = "SudokuSolver"
    /\ stack # <<>>
    /\ Top.pc = "loop"
    /\ Top.num <= MaxDigit
    /\ IF is_valid(grid, Top.row, Top.col, Top.num)
       THEN /\ steps' = Append(steps, <<Top.row, Top.col, Top.num, TRUE>>)
            /\ stack' = Append(SetTop([Top EXCEPT !.pc = "call"]), NewFrame)
       ELSE /\ stack' = SetTop([Top EXCEPT !.num = @ + 1])
            /\ UNCHANGED steps
    /\ UNCHANGED <<cls, grid, original_grid, local, solution_states,
                   current_state_index, selected_cell, solving, solved, ret,
                   input, probe>>

\* solve, lines 51-60: one iteration of the loop, up to the recursive call.
solve_try ==
    /\ cls = "SudokuSolver"
    /\ stack # <<>>
    /\ Top.pc = "loop"
    /\ Top.num <= MaxDigit
    /\ IF is_valid(grid, Top.row, Top.col, Top.num)
       THEN /\ grid' = SetCell(grid, Top.row, Top.col, Top.num)
            /\ steps' = Append(steps, <<Top.row, Top.col, Top.num, TRUE>>)
            /\ stack' = Append(SetTop([Top EXCEPT !.pc = "call"]), NewFrame)
       ELSE /\ stack' = SetTop([Top EXCEPT !.num = @ + 1])
            /\ UNCHANGED <<grid, steps>>
    /\ UNCHANGED <<cls, original_grid, local, solution_states,
                   current_state_index, selected_cell, solving, solved, ret,
                   input, probe>>

\* solve, lines 60-61: the recursive call returned True.
solve_propagate ==
    /\ cls = "SudokuSolver"
    /\ stack # <<>>
    /\ Top.pc = "call"
    /\ ret = "True"
    /\ stack' = Pop
    /\ UNCHANGED <<cls, grid, original_grid, local, steps, solution_states,
                   current_state_index, selected_cell, solving, solved, ret,
                   input, probe>>

\* Mutant of solve_backtrack: the cell is not reset to 0.
solve_backtrack_no_reset ==
    /\ cls = "SudokuSolver"
    /\ stack # <<>>
    /\ Top.pc = "call"
    /\ ret = "False"
    /\ steps' = Append(steps, <<Top.row, Top.col, 0, FALSE>>)
    /\ stack' = SetTop([Top EXCEPT !.pc = "loop", !.num = @ + 1])
    /\ ret' = "pending"
    /\ UNCHANGED <<cls, grid, original_grid, local, solution_states,
                   current_state_index, selected_cell, solving, solved,
                   input, probe>>

\* Mutant of solve_backtrack: `return False` inside the loop, so that no
\* further digit is tried after the first dead end.
solve_backtrack_gives_up ==
    /\ cls = "SudokuSolver"
    /\ stack # <<>>
    /\ Top.pc = "call"
    /\ ret = "False"
    /\ grid' = SetCell(grid, Top.row, Top.col, 0)
    /\ steps' = Append(steps, <<Top.row, Top.col, 0, FALSE>>)
    /\ stack' = SetTop([Top EXCEPT !.pc = "loop", !.num = MaxDigit + 1])
    /\ ret' = "pending"
    /\ UNCHANGED <<cls, original_grid, local, solution_states,
                   current_state_index, selected_cell, solving, solved,
                   input, probe>>

\* Mutant of solve_backtrack: the withdrawal is recorded at the transposed
\* cell.
solve_backtrack_transposed ==
    /\ cls = "SudokuSolver"
    /\ stack # <<>>
    /\ Top.pc = "call"
    /\ ret = "False"
    /\ grid' = SetCell(grid, Top.row, Top.col, 0)
    /\ steps' = Append(steps, <<Top.col, Top.row, 0, FALSE>>)
    /\ stack' = SetTop([Top EXCEPT !.pc = "loop", !.num = @ + 1])
    /\ ret' = "pending"
    /\ UNCHANGED <<cls, original_grid, local, solution_states,
                   current_state_index, selected_cell, solving, solved,
                   input, probe>>

\* solve, lines 63-65: the recursive call returned False.
solve_backtrack ==
    /\ cls = "SudokuSolver"
    /\ stack # <<>>
    /\ Top.pc = "call"
    /\ ret = "False"
    /\ grid' = SetCell(grid, Top.row, Top.col, 0)
    /\ steps' = Append(steps, <<Top.row, Top.col, 0, FALSE>>)
    /\ stack' = SetTop([Top EXCEPT !.pc = "loop", !.num = @ + 1])
    /\ ret' = "pending"
    /\ UNCHANGED <<cls, original_grid, local, solution_states,
                   current_state_index, selected_cell, solving, solved,
                   input, probe>>

\* solve, line 67: every digit was tried.
solve_fail ==
    /\ cls = "SudokuSolver"
    /\ stack # <<>>
    /\ Top.pc = "loop"
    /\ Top.num > MaxDigit
    /\ stack' = Pop
    /\ ret' = "False"
    /\ UNCHANGED <<cls, grid, original_grid, local, steps, solution_states,
                   current_state_index, selected_cell, solving, solved,
                   input, probe>>

\* ------------------------------------------------------------------------
\* src/sudoku2.py: class InteractiveSudokuSolver
\* ------------------------------------------------------------------------

\* Mutant of Interactive_is_valid: the row check is left out.
Interactive_is_valid_no_row(g, row, col, num) ==
    IF \E i \in Idx : g[i][col] = num
    THEN FALSE
    ELSE LET box_row == Box * (row \div Box)
             box_col == Box * (col \div Box)
         IN  ~(\E i \in box_row .. (box_row + Box - 1) :
                   \E j \in box_col .. (box_col + Box - 1) : g[i][j] = num)

Interactive_is_valid(g, row, col, num) ==
    IF \E j \in Idx : g[row][j] = num
    THEN FALSE
    ELSE IF \E i \in Idx : g[i][col] = num
    THEN FALSE
    ELSE LET box_row == Box * (row \div Box)
             box_col == Box * (col \div Box)
         IN  IF \E i \in box_row .. (box_row + Box - 1) :
                   \E j \in box_col .. (box_col + Box - 1) : g[i][j] = num
             THEN FALSE
             ELSE TRUE

Interactive_find_empty(g) ==
    LET E == {c \in Cells : g[c[1]][c[2]] = 0}
    IN  IF E = {}
        THEN None
        ELSE CHOOSE c \in E :
                 \A d \in E : c[1] < d[1] \/ (c[1] = d[1] /\ c[2] <= d[2])

\* One entry of solution_states; 'grid' is copy.deepcopy(grid).
State(g, row, col, num, action) ==
    [grid |-> g, row |-> row, col |-> col, num |-> num, action |-> action]

\* start_solving, lines 256-270: up to the call of solve_algorithm on a copy.
\* Grids with more than MaxHoles empty cells are not searched in the model.
start_solving ==
    /\ cls = "InteractiveSudokuSolver"
    /\ stack = <<>>
    /\ ~solving /\ ~solved
    /\ Cardinality({c \in Cells : grid[c[1]][c[2]] = 0}) <= MaxHoles
    /\ original_grid' = grid
    /\ solution_states' = <<>>
    /\ current_state_index' = -1
    /\ solving' = TRUE
    /\ local' = grid
    /\ stack' = <<NewFrame>>
    /\ ret' = "pending"
    /\ input' = grid
    /\ UNCHANGED <<cls, grid, steps, selected_cell, solved, probe>>

\* solve_algorithm, lines 212-218.
solve_algorithm_find ==
    /\ cls = "InteractiveSudokuSolver"
    /\ stack # <<>>
    /\ Top.pc = "find"
    /\ LET empty_cell == Interactive_find_empty(local)
       IN  IF empty_cell = None
           THEN /\ stack' = Pop
                /\ ret' = "True"
           ELSE /\ stack' = SetTop([pc |-> "loop", row |-> empty_cell[1],
                                    col |-> empty_cell[2], num |-> 1])
                /\ ret' = ret
    /\ UNCHANGED <<cls, grid, original_grid, local, steps, solution_states,
                   current_state_index, selected_cell, solving, solved,
                   input, probe>>

\* Mutant of solve_algorithm_try: the snapshot is taken before the digit is
\* placed.
solve_algorithm_try_stale ==
    /\ cls = "InteractiveSudokuSolver"
    /\ stack # <<>>
    /\ Top.pc = "loop"
    /\ Top.num <= MaxDigit
    /\ IF Interactive_is_valid(local, Top.row, Top.col, Top.num)
       THEN /\ local' = SetCell(local, Top.row, Top.col, Top.num)
            /\ solution_states' =
                   Append(solution_states,
                          State(local, Top.row, Top.col, Top.num, "place"))
            /\ stack' = Append(SetTop([Top EXCEPT !.pc = "call"]), NewFrame)
       ELSE /\ stack' = SetTop([Top EXCEPT !.num = @ + 1])
            /\ UNCHANGED <<local, solution_states>>
    /\ UNCHANGED <<cls, grid, original_grid, steps, current_state_index,
                   selected_cell, solving, solved, ret, input, probe>>

\* solve_algorithm, lines 221-237: one iteration, up to the recursive call.
solve_algorithm_try ==
    /\ cls = "InteractiveSudokuSolver"
    /\ stack # <<>>
    /\ Top.pc = "loop"
    /\ Top.num <= MaxDigit
    /\ IF Interactive_is_valid(local, Top.row, Top.col, Top.num)
       THEN /\ local' = SetCell(local, Top.row, Top.col, Top.num)
            /\ solution_states' =
                   Append(solution_states,
                          State(local', Top.row, Top.col, Top.num, "place"))
            /\ stack' = Append(SetTop([Top EXCEPT !.pc = "call"]), NewFrame)
       ELSE /\ stack' = SetTop([Top EXCEPT !.num = @ + 1])
            /\ UNCHANGED <<local, solution_states>>
    /\ UNCHANGED <<cls, grid, original_grid, steps, current_state_index,
                   selected_cell, solving, solved, ret, input, probe>>

\* solve_algorithm, lines 237-238: the recursive call returned True.
solve_algorithm_propagate ==
    /\ cls = "InteractiveSudokuSolver"
    /\ stack # <<>>
    /\ Top.pc = "call"
    /\ ret = "True"
    /\ stack' = Pop
    /\ UNCHANGED <<cls, grid, original_grid, local, steps, solution_states,
                   current_state_index, selected_cell, solving, solved, ret,
                   input, probe>>

\* Mutant of solve_algorithm_backtrack: the withdrawal is not recorded.
solve_algorithm_backtrack_silent ==
    /\ cls = "InteractiveSudokuSolver"
    /\ stack # <<>>
    /\ Top.pc = "call"
    /\ ret = "False"
    /\ local' = SetCell(local, Top.row, Top.col, 0)
    /\ stack' = SetTop([Top EXCEPT !.pc = "loop", !.num = @ + 1])
    /\ ret' = "pending"
    /\ UNCHANGED <<cls, grid, original_grid, steps, solution_states,
                   current_state_index, selected_cell, solving, solved,
                   input, probe>>

\* solve_algorithm, lines 240-251: the recursive call returned False.
solve_algorithm_backtrack ==
    /\ cls = "InteractiveSudokuSolver"
    /\ stack # <<>>
    /\ Top.pc = "call"
    /\ ret = "False"
    /\ local' = SetCell(local, Top.row, Top.col, 0)
    /\ solution_states' =
           Append(solution_states,
                  State(local', Top.row, Top.col, Top.num, "backtrack"))
    /\ stack' = SetTop([Top EXCEPT !.pc = "loop", !.num = @ + 1])
    /\ ret' = "pending"
    /\ UNCHANGED <<cls, grid, original_grid, steps, current_state_index,
                   selected_cell, solving, solved, input, probe>>

\* solve_algorithm, line 253.
solve_algorithm_fail ==
    /\ cls = "InteractiveSudokuSolver"
    /\ stack # <<>>
    /\ Top.pc = "loop"
    /\ Top.num > MaxDigit
    /\ stack' = Pop
    /\ ret' = "False"
    /\ UNCHANGED <<cls, grid, original_grid, local, steps, solution_states,
                   current_state_index, selected_cell, solving, solved,
                   input, probe>>

\* Mutant of start_solving_end: on success show_state is called with
\* len(solution_states), one past the last state.
start_solving_end_past_last ==
    /\ cls = "InteractiveSudokuSolver"
    /\ solving
    /\ stack = <<>>
    /\ ret # "pending"
    /\ IF ret = "True"
       THEN /\ solved' = TRUE
            /\ UNCHANGED <<grid, selected_cell, current_state_index>>
       ELSE UNCHANGED <<solved, grid, selected_cell, current_state_index>>
    /\ solving' = FALSE
    /\ UNCHANGED <<cls, original_grid, local, steps, solution_states, stack,
                   ret, input, probe>>

\* start_solving, lines 273-283: after solve_algorithm returned; on success
\* show_state(len(solution_states) - 1) when there is a state to show.
start_solving_end ==
    /\ cls = "InteractiveSudokuSolver"
    /\ solving
    /\ stack = <<>>
    /\ ret # "pending"
    /\ IF ret = "True"
       THEN /\ solved' = TRUE
            /\ IF Len(solution_states) > 0
               THEN LET index == Len(solution_states) - 1
                        state == solution_states[index + 1]
                    IN  /\ grid' = state.grid
                        /\ selected_cell' = <<state.row, state.col>>
                        /\ current_state_index' = index
               ELSE UNCHANGED <<grid, selected_cell, current_state_index>>
       ELSE UNCHANGED <<solved, grid, selected_cell, current_state_index>>
    /\ solving' = FALSE
    /\ UNCHANGED <<cls, original_grid, local, steps, solution_states, stack,
                   ret, input, probe>>

\* ------------------------------------------------------------------------
\* Specification of the search
\* ------------------------------------------------------------------------

\* A SudokuSolver built on an input grid (__init__, lines 9-11), or an
\* InteractiveSudokuSolver whose grid was entered cell by cell with
\* place_number before any solve (original_grid is still all zeros, the
\* cell selected last is the bottom right one).
Init ==
    /\ cls \in {"SudokuSolver", "InteractiveSudokuSolver"}
    /\ grid \in Inputs
    /\ original_grid = IF cls = "SudokuSolver" THEN grid ELSE Zeros
    /\ local = <<>>
    /\ steps = <<>>
    /\ solution_states = <<>>
    /\ current_state_index = -1
    /\ selected_cell = IF cls = "SudokuSolver" THEN None ELSE <<N - 1, N - 1>>
    /\ solving = FALSE
    /\ solved = FALSE
    /\ stack = <<>>
    /\ ret = "pending"
    /\ input = grid
    /\ probe = <<>>

\* The steps of a running search.
SolveStep ==
    \/ solve_find
    \/ solve_try
    \/ solve_propagate
    \/ solve_backtrack
    \/ solve_fail
    \/ solve_algorithm_find
    \/ solve_algorithm_try
    \/ solve_algorithm_propagate
    \/ solve_algorithm_backtrack
    \/ solve_algorithm_fail
    \/ start_solving_end

Next ==
    \/ solve_and_visualize
    \/ start_solving
    \/ SolveStep

Spec == Init /\ [][Next]_vars

\* Both classes run the search synchronously to its end: a started search
\* keeps taking steps.
FairSpec == Spec /\ WF_vars(SolveStep)

\* ------------------------------------------------------------------------
\* Specification of is_valid called on its own
\* ------------------------------------------------------------------------

\* The cells is_valid is probed at: the cells an input may leave empty or
\* overwrite, and one more cell of their row, of their column and of their
\* box.
ProbeCells == HoleCells \cup EditCells \cup {<<0, 1>>, <<1, 1>>, <<4, 0>>, <<4, 4>>}

IsValidInit ==
    /\ cls \in {"SudokuSolver", "InteractiveSudokuSolver"}
    /\ grid \in ProbeGrids
    /\ original_grid = IF cls = "SudokuSolver" THEN grid ELSE Zeros
    /\ local = <<>>
    /\ steps = <<>>
    /\ solution_states = <<>>
    /\ current_state_index = -1
    /\ selected_cell = IF cls = "SudokuSolver" THEN None ELSE <<N - 1, N - 1>>
    /\ solving = FALSE
    /\ solved = FALSE
    /\ stack = <<>>
    /\ ret = "pending"
    /\ input = grid
    /\ probe = <<>>

\* SudokuSolver.is_valid(row, col, num) on self.grid. The call changes
\* nothing, so one call per behaviour covers every call.
is_valid_call ==
    /\ cls = "SudokuSolver"
    /\ probe = <<>>
    /\ \E c \in ProbeCells, num \in Digits :
           probe' = <<c[1], c[2], num, is_valid(grid, c[1], c[2], num)>>
    /\ UNCHANGED <<cls, grid, original_grid, local, steps, solution_states,
                   current_state_index, selected_cell, solving, solved,
                   stack, ret, input>>

\* InteractiveSudokuSolver.is_valid(grid, row, col, num) on self.grid.
Interactive_is_valid_call ==
    /\ cls = "InteractiveSudokuSolver"
    /\ probe = <<>>
    /\ \E c \in ProbeCells, num \in Digits :
           probe' = <<c[1], c[2], num,
                      Interactive_is_valid(grid, c[1], c[2], num)>>
    /\ UNCHANGED <<cls, grid, original_grid, local, steps, solution_states,
                   current_state_index, selected_cell, solving, solved,
                   stack, ret, input>>

IsValidNext == is_valid_call \/ Interactive_is_valid_call

IsValidSpec == IsValidInit /\ [][IsValidNext]_vars

\* ------------------------------------------------------------------------
\* Vocabulary of the properties
\* ------------------------------------------------------------------------

\* A search has been started (and may have returned).
Started == stack # <<>> \/ ret # "pending"

\* The outermost solve / solve_algorithm call has returned.
Returned == stack = <<>> /\ ret # "pending"

\* The grid the search reads and writes: self.grid in SudokuSolver, the
\* grid argument in InteractiveSudokuSolver.
Searched == IF cls = "SudokuSolver" THEN grid ELSE local

\* The trace as events, whichever class recorded it.
Events ==
    IF cls = "SudokuSolver"
    THEN [i \in 1 .. Len(steps) |->
             [row |-> steps[i][1], col |-> steps[i][2], num |-> steps[i][3],
              kind |-> IF steps[i][4] THEN "place" ELSE "backtrack"]]
    ELSE [i \in 1 .. Len(solution_states) |->
             [row |-> solution_states[i].row, col |-> solution_states[i].col,
              num |-> solution_states[i].num,
              kind |-> solution_states[i].action]]

Holes(g) == {c \in Cells : g[c[1]][c[2]] = 0}

RowOf(g, r) == [j \in Idx |-> g[r][j]]

ColOf(g, c) == [i \in Idx |-> g[i][c]]

\* The box with index b (0 .. 8, row-major), its cells in row-major order.
BoxOf(g, b) ==
    [k \in Idx |-> g[Box * (b \div Box) + (k \div Box)][Box * (b % Box) + (k % Box)]]

Units(g) ==
    {RowOf(g, r) : r \in Idx} \cup {ColOf(g, c) : c \in Idx}
        \cup {BoxOf(g, b) : b \in Idx}

\* No non-zero digit occurs twice in the unit.
NoRepeat(u) ==
    Cardinality({i \in Idx : u[i] # 0}) = Cardinality({u[i] : i \in Idx} \ {0})

\* Every digit 1 .. 9 occurs exactly once in the unit.
Complete(u) == \A d \in Digits : Cardinality({i \in Idx : u[i] = d}) = 1

NoDuplicate(g) ==
    /\ \A r \in Idx : NoRepeat(RowOf(g, r))
    /\ \A c \in Idx : NoRepeat(ColOf(g, c))
    /\ \A b \in Idx : NoRepeat(BoxOf(g, b))

RowDuplicate(g) == \E r \in Idx : ~NoRepeat(RowOf(g, r))

IsSolution(g) == \A u \in Units(g) : Complete(u)

KeepsClues(g0, g) ==
    \A c \in Cells : g0[c[1]][c[2]] # 0 => g[c[1]][c[2]] = g0[c[1]][c[2]]

\* The digits no clue of g excludes at cell c.
Candidates(g, c) ==
    {d \in Digits :
        /\ \A j \in Idx : g[c[1]][j] # d
        /\ \A i \in Idx : g[i][c[2]] # d
        /\ \A k \in Idx :
               BoxOf(g, Box * (c[1] \div Box) + (c[2] \div Box))[k] # d}

\* Every way of writing into the cells of H a digit that no other cell
\* excludes.
RECURSIVE Fillings(_, _)
Fillings(g, H) ==
    IF H = {}
    THEN {g}
    ELSE LET c == CHOOSE x \in H : TRUE
         IN  UNION {Fillings(SetCell(g, c[1], c[2], d), H \ {c}) :
                        d \in Candidates(g, c)}

\* The valid completions of g: full grids that keep its clues and have each
\* digit once in every row, column and box.
Completions(g) ==
    {h \in Fillings(g, Holes(g)) : IsSolution(h) /\ KeepsClues(g, h)}

\* ------------------------------------------------------------------------
\* Properties
\* ------------------------------------------------------------------------

\* C1: when solve / solve_algorithm returns on an input that has a valid
\* completion, every row, column and box of the grid holds each digit
\* 1..9 exactly once and every clue of the input is unchanged.
C1_SolvedGridIsValid ==
    (Returned /\ Completions(input) # {}) =>
        (IsSolution(Searched) /\ KeepsClues(input, Searched))

\* An input with several valid completions was solved.
C1_Witness ==
    /\ Returned
    /\ Cardinality(Completions(input)) >= 2
    /\ IsSolution(Searched)

\* C2: on an input whose clues hold no row, column or box duplicate, solve
\* returns True exactly when the input has a valid completion, and the grid
\* it returns True on is one.
C2_ExhaustiveAndSound ==
    (Returned /\ NoDuplicate(input)) =>
        /\ (ret = "True") <=> (Completions(input) # {})
        /\ (ret = "True") => (Searched \in Completions(input))

\* An input without duplicate clues and without completion was searched
\* through placements and backtracks, and False came back.
C2_Witness ==
    /\ Returned
    /\ NoDuplicate(input)
    /\ Completions(input) = {}
    /\ ret = "False"
    /\ Len(Events) >= 4

\* C3: whenever solve returns False the grid is cell for cell the grid it
\* was called on.
C3_FailureRestoresGrid ==
    (Returned /\ ret = "False") => (Searched = input)

\* False came back after placements were made and undone.
C3_Witness ==
    /\ Returned
    /\ ret = "False"
    /\ Len(Events) >= 4
    /\ Searched = input

\* A Place event writes its digit into (row, col), a Backtrack event writes 0.
ApplyEvent(g, e) ==
    SetCell(g, e.row, e.col, IF e.kind = "place" THEN e.num ELSE 0)

RECURSIVE Replay(_, _)
Replay(g, evs) ==
    IF evs = <<>> THEN g ELSE Replay(ApplyEvent(g, Head(evs)), Tail(evs))

\* C4: the trace is a replay log. At every moment of a search, applying the
\* trace to the input gives the grid the solver holds (so every prefix gave
\* the grid held when its last event was appended), and in
\* InteractiveSudokuSolver the snapshot stored with each state is the replay
\* of the prefix that ends with it.
C4_TraceReplays ==
    Started =>
        /\ Replay(input, Events) = Searched
        /\ \A i \in 1 .. Len(solution_states) :
               solution_states[i].grid = Replay(input, SubSeq(Events, 1, i))

\* A search of InteractiveSudokuSolver has recorded a backtrack and a later
\* placement.
C4_Witness ==
    /\ cls = "InteractiveSudokuSolver"
    /\ Len(solution_states) >= 3
    /\ \E i \in 1 .. (Len(solution_states) - 1) :
           /\ solution_states[i].action = "backtrack"
           /\ solution_states[i + 1].action = "place"
    /\ Replay(input, Events) = Searched

\* The Place events before event i at the cell of event i.
PlacesBefore(evs, i) ==
    {j \in 1 .. (i - 1) :
        /\ evs[j].kind = "place"
        /\ evs[j].row = evs[i].row
        /\ evs[j].col = evs[i].col}

Max(S) == CHOOSE m \in S : \A x \in S : x <= m

\* C5: every Backtrack event carries the (row, col, digit) of the Place
\* event it undoes, the digit being in 1..9, in both classes.
C5_BacktrackCarriesDigit ==
    \A i \in DOMAIN Events :
        Events[i].kind = "backtrack" =>
            /\ Events[i].num \in Digits
            /\ PlacesBefore(Events, i) # {}
            /\ Events[Max(PlacesBefore(Events, i))].num = Events[i].num

\* C6: on an input in which a digit is a clue twice in one row, solve
\* returns False.
C6_RowDuplicateReturnsFalse ==
    (Returned /\ RowDuplicate(input)) => (ret = "False")

\* C7: solve called on a full valid grid returns True at once: no event is
\* recorded, no loop is entered, no recursive call is made and no cell
\* changes.
C7_SolvedGridIsFixedPoint ==
    (Started /\ Holes(input) = {} /\ IsSolution(input)) =>
        /\ Events = <<>>
        /\ Searched = input
        /\ \/ stack = <<NewFrame>> /\ ret = "pending"
           \/ stack = <<>> /\ ret = "True"

\* solve was called again on the grid a successful solve left, and returned.
C7_Witness ==
    /\ cls = "SudokuSolver"
    /\ Holes(original_grid) # {}
    /\ IsSolution(input)
    /\ Returned
    /\ ret = "True"
    /\ steps = <<>>

\* The last cell of H in row-major order.
LastCell(H) ==
    CHOOSE c \in H : \A d \in H : c[1] > d[1] \/ (c[1] = d[1] /\ c[2] >= d[2])

\* C10: when solve returns True on an input with an empty cell, the trace
\* is non-empty, its last event is a Place event at the last empty cell of
\* the input in row-major order, and the grid after that event is full and
\* has each digit once in every row, column and box.
C10_LastEventCompletes ==
    (Returned /\ ret = "True" /\ Holes(input) # {}) =>
        /\ Len(Events) > 0
        /\ Events[Len(Events)].kind = "place"
        /\ <<Events[Len(Events)].row, Events[Len(Events)].col>>
               = LastCell(Holes(input))
        /\ IsSolution(Replay(input, Events))

\* The nested solve frames that hold a placement not yet undone: those
\* inside their recursive call.
Depth == Cardinality({i \in 1 .. Len(stack) : stack[i].pc = "call"})

\* C8: a started solve returns, and at every moment the number of nested
\* frames holding a placement is at most the number of cells that were empty
\* in the input (at most 81).
C8_ReturnsWithinDepth ==
    /\ (stack # <<>>) ~> Returned
    /\ [](Depth <= Cardinality(Holes(input)) /\ Depth <= N * N)

\* Every cell that was empty in the input holds a placement of its own
\* frame: the recursion is as deep as the bound allows.
C8_Witness ==
    /\ Depth = Cardinality(Holes(input))
    /\ Depth >= 4

\* num is in no cell of row `row`, of column `col` and of the box of
\* (row, col) other than (row, col) itself.
NoOtherCell(g, row, col, num) ==
    /\ \A j \in Idx \ {col} : g[row][j] # num
    /\ \A i \in Idx \ {row} : g[i][col] # num
    /\ \A i \in (Box * (row \div Box)) .. (Box * (row \div Box) + Box - 1) :
           \A j \in (Box * (col \div Box)) .. (Box * (col \div Box) + Box - 1) :
               (<<i, j>> # <<row, col>>) => g[i][j] # num

\* C9 as stated: is_valid returns True exactly when the digit is in no other
\* cell of the row, the column and the box, whatever the target cell holds.
C9_IgnoresTargetCell ==
    probe # <<>> =>
        (probe[4] <=> NoOtherCell(grid, probe[1], probe[2], probe[3]))

\* C9 as amended: is_valid returns True exactly when the digit is in no
\* cell of the row, the column and the box, the target cell included: it is
\* False when the target cell holds the digit, and otherwise True exactly
\* when no other cell of the row, the column and the box holds it.
C9_CountsTargetCell ==
    probe # <<>> =>
        (probe[4] <=>
            /\ grid[probe[1]][probe[2]] # probe[3]
            /\ NoOtherCell(grid, probe[1], probe[2], probe[3]))

\* is_valid returned True at a cell that holds another digit.
C9_Witness ==
    /\ probe # <<>>
    /\ probe[4]
    /\ grid[probe[1]][probe[2]] # 0

\* The first empty cell of the set H of cells in row-major order.
FirstCell(H) ==
    CHOOSE c \in H : \A d \in H : c[1] < d[1] \/ (c[1] = d[1] /\ c[2] <= d[2])

\* C11 as stated: whenever solve returns False on an input without valid
\* completion, the trace holds at least one Place event and its Backtrack.
C11_FailureTraceNonEmpty ==
    (Returned /\ ret = "False" /\ Completions(input) = {}) =>
        \E i, j \in DOMAIN Events :
            /\ i < j
            /\ Events[i].kind = "place"
            /\ Events[j].kind = "backtrack"
            /\ Events[j].row = Events[i].row
            /\ Events[j].col = Events[i].col

\* C11 as amended: when solve returns False, the trace is empty exactly when
\* the clues exclude every digit at the first empty cell of the input;
\* otherwise it starts with a Place event at that cell, ends with the
\* Backtrack event of that cell, and holds as many Backtrack events as
\* Place events.
C11_FailureTraceEmptyOrPaired ==
    (Returned /\ ret = "False") =>
        /\ Holes(input) # {}
        /\ (Events = <<>>) <=> (Candidates(input, FirstCell(Holes(input))) = {})
        /\ Events # <<>> =>
               /\ Events[1].kind = "place"
               /\ <<Events[1].row, Events[1].col>> = FirstCell(Holes(input))
               /\ Events[Len(Events)].kind = "backtrack"
               /\ <<Events[Len(Events)].row, Events[Len(Events)].col>>
                      = FirstCell(Holes(input))
               /\ Cardinality({i \in DOMAIN Events : Events[i].kind = "place"})
                      = Cardinality({i \in DOMAIN Events :
                                         Events[i].kind = "backtrack"})

\* A search failed without an event on an input that has no duplicate clue.
C11_Witness ==
    /\ Returned
    /\ ret = "False"
    /\ NoDuplicate(input)
    /\ Events = <<>>

\* ------------------------------------------------------------------------
\* Specification of is_valid called with any integer index
\* ------------------------------------------------------------------------

\* The indexes is_valid is called with: in range, negative and too large.
RangeIndexes == {-10, -9, -4, -1, 0, 8, 9}

\* Values outside 0 .. 9 a caller may leave in the grid it passes.
BadValues == {-1, 10}

\* The grids passed to the constructor: the base grid, or the base grid
\* with one cell emptied or holding a value outside 0 .. 9.
RangeGrids ==
    {BaseGrid} \cup
    {SetCell(BaseGrid, e[1], e[2], v) : e \in EditCells, v \in BadValues \cup {0}}

\* An integer index into an axis of length 9 raises IndexError outside
\* -9 .. 8; a negative index in that range counts from the end.
IndexError(i) == i < -N \/ i >= N

PyIndex(i) == IF i < 0 THEN i + N ELSE i

\* The indexes of the slice [start:stop] of an axis of length 9: a negative
\* end counts from the end of the axis, and both ends are clipped to 0 .. 9.
PySlice(start, stop) ==
    LET Clip(k) == IF k < 0
                   THEN (IF k + N < 0 THEN 0 ELSE k + N)
                   ELSE (IF k > N THEN N ELSE k)
    IN  Clip(start) .. (Clip(stop) - 1)

\* SudokuSolver.is_valid(row, col, num) for any integers row and col: what
\* the call returns, or the exception it raises.
is_valid_any(g, row, col, num) ==
    IF IndexError(row)
    THEN "IndexError"
    ELSE IF \E j \in Idx : g[PyIndex(row)][j] = num
    THEN "False"
    ELSE IF IndexError(col)
    THEN "IndexError"
    ELSE IF \E i \in Idx : g[i][PyIndex(col)] = num
    THEN "False"
    ELSE LET box_row == Box * (row \div Box)
             box_col == Box * (col \div Box)
         IN  IF \E i \in PySlice(box_row, box_row + Box) :
                   \E j \in PySlice(box_col, box_col + Box) : g[i][j] = num
             THEN "False"
             ELSE "True"

\* SudokuSolver(grid): the constructor stores the grid as it is given.
RangeInit ==
    /\ cls = "SudokuSolver"
    /\ grid \in RangeGrids
    /\ original_grid = grid
    /\ local = <<>>
    /\ steps = <<>>
    /\ solution_states = <<>>
    /\ current_state_index = -1
    /\ selected_cell = None
    /\ solving = FALSE
    /\ solved = FALSE
    /\ stack = <<>>
    /\ ret = "pending"
    /\ input = grid
    /\ probe = <<>>

\* One call is_valid(row, col, num) on self.grid; the grid is only read.
is_valid_any_call ==
    /\ cls = "SudokuSolver"
    /\ probe = <<>>
    /\ \E row \in RangeIndexes, col \in RangeIndexes, num \in Digits :
           probe' = <<row, col, num, is_valid_any(grid, row, col, num)>>
    /\ UNCHANGED <<cls, grid, original_grid, local, steps, solution_states,
                   current_state_index, selected_cell, solving, solved,
                   stack, ret, input>>

RangeNext == is_valid_any_call

RangeSpec == RangeInit /\ [][RangeNext]_vars

\* C12: a call of is_valid with a row or column index outside 0..8, or on a
\* grid holding a value outside 0..9, ends with an error: no index is
\* wrapped around or clipped, no such value is accepted.
C12_ViolationsSignalled ==
    probe # <<>> =>
        ((\/ probe[1] \notin Idx
          \/ probe[2] \notin Idx
          \/ \E c \in Cells : grid[c[1]][c[2]] \notin 0 .. MaxDigit) =>
             probe[4] \notin {"True", "False"})

\* C12, the call alone: is_valid called with an index outside 0..8 on a
\* grid whose values are all in 0..9 still returns a verdict.
C12_IndexAbsorbed ==
    /\ probe # <<>>
    /\ \A c \in Cells : grid[c[1]][c[2]] \in 0 .. MaxDigit
    /\ probe[1] \notin Idx
    /\ probe[4] = "True"

\* Cell c comes before cell d in row-major order.
Before(c, d) == c[1] < d[1] \/ (c[1] = d[1] /\ c[2] < d[2])

\* Grid a is lexicographically at most grid b, reading the cells of H in
\* row-major order.
LexLeq(a, b, H) ==
    \/ \A c \in H : a[c[1]][c[2]] = b[c[1]][c[2]]
    \/ \E c \in H :
           /\ a[c[1]][c[2]] < b[c[1]][c[2]]
           /\ \A d \in H : Before(d, c) => a[d[1]][d[2]] = b[d[1]][d[2]]

\* C13: when the input has several valid completions, the grid solve returns
\* True on is the lexicographically smallest of them, reading the initially
\* empty cells in row-major order.
C13_FirstIsSmallest ==
    (Returned /\ Cardinality(Completions(input)) >= 2) =>
        /\ ret = "True"
        /\ Searched \in Completions(input)
        /\ \A h \in Completions(input) : LexLeq(Searched, h, Holes(input))

\* A search returned one completion of an input that has another one.
C13_Witness ==
    /\ Returned
    /\ ret = "True"
    /\ \E h \in Completions(input) : h # Searched

\* The cells of the Place events of evs that no later Backtrack event has
\* withdrawn, oldest first; <<None>> when a Backtrack event is not at the
\* cell of the most recent Place event still standing.
RECURSIVE OpenPlaces(_)
OpenPlaces(evs) ==
    IF evs = <<>>
    THEN <<>>
    ELSE LET before == OpenPlaces(SubSeq(evs, 1, Len(evs) - 1))
             e == evs[Len(evs)]
         IN  IF before = <<None>>
             THEN <<None>>
             ELSE IF e.kind = "place"
             THEN Append(before, <<e.row, e.col>>)
             ELSE IF before # <<>> /\ before[Len(before)] = <<e.row, e.col>>
             THEN SubSeq(before, 1, Len(before) - 1)
             ELSE <<None>>

\* The sequence lists every cell of H once, in row-major order.
RowMajorListOf(s, H) ==
    /\ Len(s) = Cardinality(H)
    /\ {s[i] : i \in DOMAIN s} = H
    /\ \A i, j \in DOMAIN s : i < j => Before(s[i], s[j])

\* C14: Place and Backtrack events are nested last-in first-out: each
\* Backtrack event is at the cell of the most recent Place event not yet
\* withdrawn; when solve returns False every Place event has been withdrawn;
\* when it returns True the Place events still standing are one per
\* initially empty cell, in row-major order.
C14_EventsNested ==
    /\ OpenPlaces(Events) # <<None>>
    /\ (Returned /\ ret = "False") => OpenPlaces(Events) = <<>>
    /\ (Returned /\ ret = "True") =>
           RowMajorListOf(OpenPlaces(Events), Holes(input))

\* A search returned True after withdrawing a digit from a cell and placing
\* another one there.
C14_Witness ==
    /\ Returned
    /\ ret = "True"
    /\ Len(OpenPlaces(Events)) >= 2
    /\ \E i \in DOMAIN Events : Events[i].kind = "backtrack"

\* The search on the inputs whose clues hold no row, column or box
\* duplicate.
CleanInit == Init /\ NoDuplicate(grid)

CleanSpec == CleanInit /\ [][Next]_vars

\* C15: on an input whose clues hold no row, column or box duplicate, every
\* grid of the search has no non-zero digit twice in a row, column or box,
\* keeps every clue of the input, every event is at a cell that was empty
\* in the input, and the snapshot recorded last is the grid of the search.
C15_SearchKeepsGridConsistent ==
    Started =>
        \/ /\ KeepsClues(input, Searched)
           /\ NoDuplicate(Searched)
           /\ \A i \in DOMAIN Events :
                  <<Events[i].row, Events[i].col>> \in Holes(input)
           /\ solution_states # <<>> =>
                  solution_states[Len(solution_states)].grid = Searched
        \/ ~NoDuplicate(input)

\* A search on an input without duplicate clues holds a partly filled grid
\* after it withdrew a digit.
C15_Witness ==
    /\ stack # <<>>
    /\ NoDuplicate(input)
    /\ Holes(Searched) # {}
    /\ Holes(Searched) # Holes(input)
    /\ \E i \in DOMAIN Events : Events[i].kind = "backtrack"

\* ------------------------------------------------------------------------
\* src/sudoku2.py: the handlers of the mouse and of the buttons
\* ------------------------------------------------------------------------

\* A handler runs to its end before the next event is handled: no event is
\* handled between start_solving and start_solving_end.
Idle == cls = "InteractiveSudokuSolver" /\ stack = <<>> /\ ~solving

\* The coordinates of a click inside the grid axes (0 <= xdata, ydata <= 9),
\* in halves of a cell: xdata 3.5 and 9.0, ydata 7.5 and 9.0.
ClickXs == {7, 18}

ClickYs == {15, 18}

\* The number buttons pressed.
ButtonNums == {1}

\* on_click, lines 70-78, for a click inside the grid axes.
on_click ==
    /\ Idle
    /\ \E xdata2 \in ClickXs, ydata2 \in ClickYs :
           LET col == IF xdata2 < 2 * N THEN xdata2 \div 2 ELSE N - 1
               row == IF ydata2 < 2 * N THEN (N - 1) - (ydata2 \div 2) ELSE 0
           IN  IF 0 <= row /\ row < N /\ 0 <= col /\ col < N
               THEN selected_cell' = <<row, col>>
               ELSE UNCHANGED selected_cell
    /\ UNCHANGED <<cls, grid, original_grid, local, steps, solution_states,
                   current_state_index, solving, solved, stack, ret, input,
                   probe>>

\* Mutant of place_number: the solved flag is not looked at.
place_number_while_solved ==
    /\ Idle
    /\ selected_cell # None
    /\ \E num \in ButtonNums :
           LET row == selected_cell[1]
               col == selected_cell[2]
           IN  IF original_grid[row][col] = 0 \/ original_grid = Zeros
               THEN grid' = SetCell(grid, row, col, num)
               ELSE UNCHANGED grid
    /\ UNCHANGED <<cls, original_grid, local, steps, solution_states,
                   current_state_index, selected_cell, solving, solved,
                   stack, ret, input, probe>>

\* place_number, lines 80-92.
place_number ==
    /\ Idle
    /\ selected_cell # None
    /\ \E num \in ButtonNums :
           LET row == selected_cell[1]
               col == selected_cell[2]
           IN  IF solved
               THEN UNCHANGED grid
               ELSE IF original_grid[row][col] = 0 \/ original_grid = Zeros
               THEN grid' = SetCell(grid, row, col, num)
               ELSE UNCHANGED grid
    /\ UNCHANGED <<cls, original_grid, local, steps, solution_states,
                   current_state_index, selected_cell, solving, solved,
                   stack, ret, input, probe>>

\* clear_selection, lines 94-103.
clear_selection ==
    /\ Idle
    /\ selected_cell # None
    /\ ~solved
    /\ LET row == selected_cell[1]
           col == selected_cell[2]
       IN  IF original_grid[row][col] = 0 \/ original_grid = Zeros
           THEN grid' = SetCell(grid, row, col, 0)
           ELSE UNCHANGED grid
    /\ UNCHANGED <<cls, original_grid, local, steps, solution_states,
                   current_state_index, selected_cell, solving, solved,
                   stack, ret, input, probe>>

\* show_state, lines 285-307.
show_state(index) ==
    IF 0 <= index /\ index < Len(solution_states)
    THEN LET state == solution_states[index + 1]
         IN  /\ grid' = state.grid
             /\ selected_cell' = <<state.row, state.col>>
             /\ current_state_index' = index
    ELSE UNCHANGED <<grid, selected_cell, current_state_index>>

\* previous_state, lines 309-311.
previous_state ==
    /\ Idle
    /\ solved /\ current_state_index > 0
    /\ show_state(current_state_index - 1)
    /\ UNCHANGED <<cls, original_grid, local, steps, solution_states,
                   solving, solved, stack, ret, input, probe>>

\* next_state, lines 313-315.
next_state ==
    /\ Idle
    /\ solved /\ current_state_index < Len(solution_states) - 1
    /\ show_state(current_state_index + 1)
    /\ UNCHANGED <<cls, original_grid, local, steps, solution_states,
                   solving, solved, stack, ret, input, probe>>

\* The fields reset_puzzle sets, lines 319-325.
Reset ==
    /\ original_grid' = Zeros
    /\ solution_states' = <<>>
    /\ current_state_index' = -1
    /\ selected_cell' = None
    /\ solving' = FALSE
    /\ solved' = FALSE

\* reset_puzzle, lines 317-332.
reset_puzzle ==
    /\ Idle
    /\ grid' = Zeros
    /\ Reset
    /\ UNCHANGED <<cls, local, steps, stack, ret, input, probe>>

\* The puzzle of load_example, lines 339-349.
example ==
    << <<5, 3, 0, 0, 7, 0, 0, 0, 0>>,
       <<6, 0, 0, 1, 9, 5, 0, 0, 0>>,
       <<0, 9, 8, 0, 0, 0, 0, 6, 0>>,
       <<8, 0, 0, 0, 6, 0, 0, 0, 3>>,
       <<4, 0, 0, 8, 0, 3, 0, 0, 1>>,
       <<7, 0, 0, 0, 2, 0, 0, 0, 6>>,
       <<0, 6, 0, 0, 0, 0, 2, 8, 0>>,
       <<0, 0, 0, 4, 1, 9, 0, 0, 5>>,
       <<0, 0, 0, 0, 8, 0, 0, 7, 9>> >>

\* load_example, lines 334-354: reset_puzzle, then the example as the grid.
load_example ==
    /\ Idle
    /\ grid' = [r \in Idx |-> [c \in Idx |-> example[r + 1][c + 1]]]
    /\ Reset
    /\ UNCHANGED <<cls, local, steps, stack, ret, input, probe>>

\* ------------------------------------------------------------------------
\* Specification of the interactive solver
\* ------------------------------------------------------------------------

\* The cells left empty in the grids the interactive solver starts from.
UIHoleCells == {<<1, 3>>, <<1, 6>>, <<2, 3>>}

\* An InteractiveSudokuSolver whose grid was entered cell by cell with
\* place_number before any solve: no cell selected, original_grid all zeros.
UIInit ==
    /\ cls = "InteractiveSudokuSolver"
    /\ grid \in {Punch(BaseGrid, H) : H \in SUBSET UIHoleCells}
    /\ original_grid = Zeros
    /\ local = <<>>
    /\ steps = <<>>
    /\ solution_states = <<>>
    /\ current_state_index = -1
    /\ selected_cell = None
    /\ solving = FALSE
    /\ solved = FALSE
    /\ stack = <<>>
    /\ ret = "pending"
    /\ input = grid
    /\ probe = <<>>

UINext ==
    \/ on_click
    \/ place_number
    \/ clear_selection
    \/ start_solving
    \/ solve_algorithm_find
    \/ solve_algorithm_try
    \/ solve_algorithm_propagate
    \/ solve_algorithm_backtrack
    \/ solve_algorithm_fail
    \/ start_solving_end
    \/ previous_state
    \/ next_state
    \/ reset_puzzle
    \/ load_example

UISpec == UIInit /\ [][UINext]_vars

\* C16 as stated: whenever solved is true, current_state_index is an index
\* of solution_states and self.grid is the grid of the state at that index.
C16_IndexInRange ==
    solved =>
        /\ 0 <= current_state_index
        /\ current_state_index < Len(solution_states)
        /\ grid = solution_states[current_state_index + 1].grid

\* C16 as amended: whenever solved is true and solution_states is not empty,
\* current_state_index is an index of solution_states and self.grid is the
\* grid of the state at that index; when solved is true and solution_states
\* is empty (a grid without empty cell was solved), current_state_index is
\* -1 and self.grid is the grid that was solved.
C16_IndexInRangeOrNoState ==
    solved =>
        IF solution_states = <<>>
        THEN /\ current_state_index = -1
             /\ grid = input
             /\ \A c \in Cells : grid[c[1]][c[2]] # 0
        ELSE /\ 0 <= current_state_index
             /\ current_state_index < Len(solution_states)
             /\ grid = solution_states[current_state_index + 1].grid

\* previous_state was pressed until the first state of a solution is shown.
C16_Witness ==
    /\ solved
    /\ Len(solution_states) >= 2
    /\ current_state_index = 0

====
